---- MODULE Spec2Model ----
(***************************************************************************)
(* third_eye.py: Agent / Anti-Agent / Observer dialectic.                  *)
(*                                                                         *)
(* Three specifications over one set of variables:                         *)
(*   Spec      one call of run_dialectic(seed_text, seed_name, rounds)     *)
(*   SpecMain  main(): the seed loop, the cross-seed tables, the saves     *)
(*   SpecCall  one call of call_opus(messages, system_prompt)              *)
(*                                                                         *)
(* Encodings.  Python's None is the string None below (TLC cannot compare  *)
(* a string with a non-string, so every text-valued variable is a string); *)
(* Fmt is what an f-string makes of such a value.  The transcript tag      *)
(* "final" of the synthesis entry is the integer FINAL for the same        *)
(* reason.  Similarities are integers, the float times 100.                *)
(***************************************************************************)
EXTENDS Integers, Sequences, FiniteSets, TLC

(* ---- bounds ----------------------------------------------------------- *)
\* number of rounds of one run (the code's default is ROUNDS = 10)
Rounds == 2
\* how many of the SEEDS main() iterates over
NumSeeds == 2

(* ---- program constants ------------------------------------------------ *)
None == "<None>"
FINAL == -1
RETRIES == 6
BACKOFF_BASE == 10
BACKOFF_CAP == 120
FLAT_SLEEP == 10
SUCCESS_SLEEP == 3
EQ_DEFAULT == 99900
NOVEL_BELOW == 10
LEANS_BELOW == 20
CONVERGED_ABOVE == 70
DIVERGED_BELOW == 30

AGENT_SYSTEM == "AGENT_SYSTEM"
ANTI_AGENT_SYSTEM == "ANTI_AGENT_SYSTEM"
OBSERVER_SYSTEM == "OBSERVER_SYSTEM"

\* SEEDS, in the dict's (insertion) order
SEEDS ==
  << [name |-> "recipe",    text |-> "Combine two cups of flour with one teaspoon of salt."],
     [name |-> "love_poem", text |-> "I carry your heart with me, I carry it in my heart."],
     [name |-> "math",      text |-> "There are more real numbers between 0 and 1 than integers."],
     [name |-> "noise",     text |-> "Purple telephone sandwich calculus morning the of whisper."] >>

Min(a, b) == IF a < b THEN a ELSE b

\* the seeds main() goes through
SeedList == SubSeq(SEEDS, 1, Min(NumSeeds, Len(SEEDS)))

(* ---- inputs ----------------------------------------------------------- *)
\* What call_opus can return: None, the empty string, or a text.  The single
\* run draws from Responses; the multi-seed driver, whose state holds every
\* earlier seed's result, from the smaller MainResponses.
Texts == {"a", "b"}
Responses == {None, ""} \cup Texts
MainResponses == {None, "a"}
\* Cosine similarities (x100) the embedder can produce: the agent/anti pair,
\* and the two pairs with the observer.  The single run draws from the Run*
\* sets, the driver from the Main* ones.
RunAgentAntiValues == {20, 80}
RunSimValues == {40, 81}
MainAgentAntiValues == {20, 80}
MainSimValues == {40, 50, 55, 81}

(* ---- helpers ---------------------------------------------------------- *)
\* Python truthiness of a call_opus result: `if not x`
Falsy(x) == x = None \/ x = ""

\* f"{x}" of a str-or-None value
Fmt(x) == IF x = None THEN "None" ELSE x

Digits == <<"0", "1", "2", "3", "4", "5", "6", "7", "8", "9">>
RECURSIVE Str(_)
\* f"{n}" of a non-negative int
Str(n) == IF n < 10 THEN Digits[n + 1] ELSE Str(n \div 10) \o Digits[(n % 10) + 1]

Abs(x) == IF x < 0 THEN -x ELSE x

User(content) == [role |-> "user", content |-> content]
Assistant(text) == [role |-> "assistant", content |-> <<text>>]

\* the prompts: the template's name and the values formatted into it, in order
InterpretPrompt(seed) == <<"Interpret this text", seed>>
ChallengePrompt(agent, seed) == <<"Challenge this interpretation", Fmt(agent), seed>>
DefendPrompt(anti) == <<"A skeptic challenges", Fmt(anti)>>
ObserverPrompt(rnd, seed, agent, anti) == <<"Round", Str(rnd), seed, Fmt(agent), Fmt(anti)>>
FinalPrompt(n, seed, agent, anti) == <<"You've watched", Str(n), seed, Fmt(agent), Fmt(anti)>>
FinalPositionPrompt == <<"After this entire debate, what is your final position?">>

Turn(rnd, role, text) == [round |-> rnd, role |-> role, text |-> text]

VARIABLES
  \* run_dialectic's frame
  pc, seed_name, seed_text, rounds, r,
  agent_history, anti_history, observer_reports, transcript,
  agent_response, anti_response, final_synthesis, agent_final, anti_final,
  result,
  \* what the current run did to the outside: the completion calls it made
  \* and the embed() calls it made
  calls, embeds,
  \* main's frame, and what main did to the outside: the run_dialectic calls
  \* (runs), the scorer's verdict lines (printed), the rows of the two
  \* cross-seed tables (table, eqtable), the files written (saved)
  mpc, seed_i, all_results, runs, printed, table, eqtable, saved,
  \* call_opus's frame, and what it did: requests sent, sleeps taken
  cpc, attempt, ret, requests, sleeps

dvars == << pc, seed_name, seed_text, rounds, r,
            agent_history, anti_history, observer_reports, transcript,
            agent_response, anti_response, final_synthesis, agent_final, anti_final,
            result, calls, embeds >>
mvars == << mpc, seed_i, all_results, runs, printed, table, eqtable, saved >>
cvars == << cpc, attempt, ret, requests, sleeps >>

vars == << dvars, mvars, cvars >>

Call(step, rnd, system, messages, resp) ==
  [step |-> step, round |-> rnd, system |-> system, messages |-> messages, ret |-> resp]

\* No run_dialectic frame.
NoFrame ==
  /\ pc = "idle"
  /\ seed_name = ""
  /\ seed_text = ""
  /\ rounds = 0
  /\ r = 0
  /\ agent_history = <<>>
  /\ anti_history = <<>>
  /\ observer_reports = <<>>
  /\ transcript = <<>>
  /\ agent_response = None
  /\ anti_response = None
  /\ final_synthesis = None
  /\ agent_final = None
  /\ anti_final = None
  /\ result = [pending |-> TRUE]
  /\ calls = <<>>
  /\ embeds = <<>>

\* main before its first statement (line 309 done): no seed processed
MainAtStart ==
  /\ mpc = "loop"
  /\ seed_i = 1
  /\ all_results = <<>>
  /\ runs = <<>>
  /\ printed = <<>>
  /\ table = <<>>
  /\ eqtable = <<>>
  /\ saved = <<>>

\* main not running (run_dialectic called on its own)
NoMain ==
  /\ mpc = "off"
  /\ seed_i = 0
  /\ all_results = <<>>
  /\ runs = <<>>
  /\ printed = <<>>
  /\ table = <<>>
  /\ eqtable = <<>>
  /\ saved = <<>>

\* no call_opus under way
NoCall ==
  /\ cpc = "off"
  /\ attempt = 0
  /\ ret = None
  /\ requests = 0
  /\ sleeps = <<>>

\* lines 132-140: entry of run_dialectic(text, name, n).  The names the body
\* assigns later are unbound at entry; they hold None here until assigned
\* (with n >= 1 each is assigned before it is read).
Enter(name, text, n) ==
  /\ pc' = "INIT"
  /\ seed_name' = name
  /\ seed_text' = text
  /\ rounds' = n
  /\ r' = 0
  /\ agent_history' = <<>>
  /\ anti_history' = <<>>
  /\ observer_reports' = <<>>
  /\ transcript' = <<>>
  /\ agent_response' = None
  /\ anti_response' = None
  /\ final_synthesis' = None
  /\ agent_final' = None
  /\ anti_final' = None
  /\ result' = [pending |-> TRUE]
  /\ calls' = <<>>
  /\ embeds' = <<>>

\* return to the caller: the frame is gone
Leave ==
  /\ pc' = "idle"
  /\ seed_name' = ""
  /\ seed_text' = ""
  /\ rounds' = 0
  /\ r' = 0
  /\ agent_history' = <<>>
  /\ anti_history' = <<>>
  /\ observer_reports' = <<>>
  /\ transcript' = <<>>
  /\ agent_response' = None
  /\ anti_response' = None
  /\ final_synthesis' = None
  /\ agent_final' = None
  /\ anti_final' = None
  /\ result' = [pending |-> TRUE]
  /\ calls' = <<>>
  /\ embeds' = <<>>

\* the seed of the single run: "noise"
RunSeed == SEEDS[4]

\* run_dialectic(RunSeed.text, RunSeed.name, Rounds) about to be called
Init ==
  /\ NoFrame
  /\ NoMain
  /\ NoCall

RunDialectic ==
  /\ pc = "idle"
  /\ mpc = "off"
  /\ Enter(RunSeed.name, RunSeed.text, Rounds)
  /\ UNCHANGED << mvars, cvars >>

\* InitStep testing `is None` at line 147 instead of truthiness
InitStepNoneOnly(Rs) ==
  /\ pc = "INIT"
  /\ \E resp \in Rs :
       LET msgs == Append(agent_history, User(InterpretPrompt(seed_text))) IN
       /\ calls' = Append(calls, Call("INIT", 0, AGENT_SYSTEM, msgs, resp))
       /\ agent_response' = resp
       /\ IF resp = None
            THEN /\ agent_history' = msgs
                 /\ result' = [error |-> "Agent failed on initial interpretation"]
                 /\ pc' = "returned"
                 /\ UNCHANGED << transcript, r >>
            ELSE /\ agent_history' = Append(msgs, Assistant(resp))
                 /\ transcript' = Append(transcript, Turn(0, "agent", resp))
                 /\ IF 1 <= rounds
                      THEN r' = 1 /\ pc' = "CHALLENGE"
                      ELSE r' = r /\ pc' = "SYNTHESIZE"
                 /\ UNCHANGED result
  /\ UNCHANGED << seed_name, seed_text, rounds, anti_history, observer_reports,
                  anti_response, final_synthesis, agent_final, anti_final,
                  embeds,
                  mvars, cvars >>

\* lines 142-152
InitStep(Rs) ==
  /\ pc = "INIT"
  /\ \E resp \in Rs :
       LET msgs == Append(agent_history, User(InterpretPrompt(seed_text))) IN
       /\ calls' = Append(calls, Call("INIT", 0, AGENT_SYSTEM, msgs, resp))
       /\ agent_response' = resp
       /\ IF Falsy(resp)
            THEN /\ agent_history' = msgs
                 /\ result' = [error |-> "Agent failed on initial interpretation"]
                 /\ pc' = "returned"
                 /\ UNCHANGED << transcript, r >>
            ELSE /\ agent_history' = Append(msgs, Assistant(resp))
                 /\ transcript' = Append(transcript, Turn(0, "agent", resp))
                 /\ IF 1 <= rounds
                      THEN r' = 1 /\ pc' = "CHALLENGE"
                      ELSE r' = r /\ pc' = "SYNTHESIZE"
                 /\ UNCHANGED result
  /\ UNCHANGED << seed_name, seed_text, rounds, anti_history, observer_reports,
                  anti_response, final_synthesis, agent_final, anti_final,
                  embeds,
                  mvars, cvars >>

\* Challenge without the break of line 168: a failed call falls through to DEFEND
ChallengeNoBreak(Rs) ==
  /\ pc = "CHALLENGE"
  /\ \E resp \in Rs :
       LET msgs == Append(anti_history, User(ChallengePrompt(agent_response, seed_text))) IN
       /\ calls' = Append(calls, Call("CHALLENGE", r, ANTI_AGENT_SYSTEM, msgs, resp))
       /\ anti_response' = resp
       /\ IF Falsy(resp)
            THEN /\ anti_history' = msgs
                 /\ pc' = "DEFEND"
                 /\ UNCHANGED transcript
            ELSE /\ anti_history' = Append(msgs, Assistant(resp))
                 /\ transcript' = Append(transcript, Turn(r, "anti_agent", resp))
                 /\ pc' = "DEFEND"
  /\ UNCHANGED << seed_name, seed_text, rounds, r, agent_history, observer_reports,
                  agent_response, final_synthesis, agent_final, anti_final,
                  result, embeds,
                  mvars, cvars >>

\* lines 157-172: the CHALLENGE step of round r
Challenge(Rs) ==
  /\ pc = "CHALLENGE"
  /\ \E resp \in Rs :
       LET msgs == Append(anti_history, User(ChallengePrompt(agent_response, seed_text))) IN
       /\ calls' = Append(calls, Call("CHALLENGE", r, ANTI_AGENT_SYSTEM, msgs, resp))
       /\ anti_response' = resp
       /\ IF Falsy(resp)
            THEN \* break
                 /\ anti_history' = msgs
                 /\ pc' = "SYNTHESIZE"
                 /\ UNCHANGED transcript
            ELSE /\ anti_history' = Append(msgs, Assistant(resp))
                 /\ transcript' = Append(transcript, Turn(r, "anti_agent", resp))
                 /\ pc' = "DEFEND"
  /\ UNCHANGED << seed_name, seed_text, rounds, r, agent_history, observer_reports,
                  agent_response, final_synthesis, agent_final, anti_final,
                  result, embeds,
                  mvars, cvars >>

\* Defend with `continue` for the `break` of line 184: a failed call goes on
\* to the next round
DefendContinues(Rs) ==
  /\ pc = "DEFEND"
  /\ \E resp \in Rs :
       LET msgs == Append(agent_history, User(DefendPrompt(anti_response))) IN
       /\ calls' = Append(calls, Call("DEFEND", r, AGENT_SYSTEM, msgs, resp))
       /\ agent_response' = resp
       /\ IF Falsy(resp)
            THEN /\ agent_history' = msgs
                 /\ IF r < rounds
                      THEN r' = r + 1 /\ pc' = "CHALLENGE"
                      ELSE r' = r /\ pc' = "SYNTHESIZE"
                 /\ UNCHANGED transcript
            ELSE /\ agent_history' = Append(msgs, Assistant(resp))
                 /\ transcript' = Append(transcript, Turn(r, "agent", resp))
                 /\ r' = r /\ pc' = "OBSERVE"
  /\ UNCHANGED << seed_name, seed_text, rounds, anti_history, observer_reports,
                  anti_response, final_synthesis, agent_final, anti_final,
                  result, embeds,
                  mvars, cvars >>

\* Defend without the break of line 184: a failed call falls through to the
\* append and the OBSERVE step
DefendNoBreak(Rs) ==
  /\ pc = "DEFEND"
  /\ \E resp \in Rs :
       LET msgs == Append(agent_history, User(DefendPrompt(anti_response))) IN
       /\ calls' = Append(calls, Call("DEFEND", r, AGENT_SYSTEM, msgs, resp))
       /\ agent_response' = resp
       /\ IF FALSE
            THEN \* break
                 /\ agent_history' = msgs
                 /\ pc' = "SYNTHESIZE"
                 /\ UNCHANGED transcript
            ELSE /\ agent_history' = Append(msgs, Assistant(resp))
                 /\ transcript' = Append(transcript, Turn(r, "agent", resp))
                 /\ pc' = "OBSERVE"
  /\ UNCHANGED << seed_name, seed_text, rounds, r, anti_history, observer_reports,
                  anti_response, final_synthesis, agent_final, anti_final,
                  result, embeds,
                  mvars, cvars >>

\* lines 174-188: the DEFEND step of round r
Defend(Rs) ==
  /\ pc = "DEFEND"
  /\ \E resp \in Rs :
       LET msgs == Append(agent_history, User(DefendPrompt(anti_response))) IN
       /\ calls' = Append(calls, Call("DEFEND", r, AGENT_SYSTEM, msgs, resp))
       /\ agent_response' = resp
       /\ IF Falsy(resp)
            THEN \* break
                 /\ agent_history' = msgs
                 /\ pc' = "SYNTHESIZE"
                 /\ UNCHANGED transcript
            ELSE /\ agent_history' = Append(msgs, Assistant(resp))
                 /\ transcript' = Append(transcript, Turn(r, "agent", resp))
                 /\ pc' = "OBSERVE"
  /\ UNCHANGED << seed_name, seed_text, rounds, r, anti_history, observer_reports,
                  anti_response, final_synthesis, agent_final, anti_final,
                  result, embeds,
                  mvars, cvars >>

\* Observe treating a failed call like CHALLENGE and DEFEND do: break
ObserveBreaks(Rs) ==
  /\ pc = "OBSERVE"
  /\ \E resp \in Rs :
       LET msgs == << User(ObserverPrompt(r, seed_text, agent_response, anti_response)) >> IN
       /\ calls' = Append(calls, Call("OBSERVE", r, OBSERVER_SYSTEM, msgs, resp))
       /\ IF Falsy(resp)
            THEN /\ UNCHANGED << observer_reports, transcript >>
                 /\ r' = r /\ pc' = "SYNTHESIZE"
            ELSE /\ observer_reports' = Append(observer_reports, [round |-> r, text |-> resp])
                 /\ transcript' = Append(transcript, Turn(r, "observer", resp))
                 /\ IF r < rounds
                      THEN r' = r + 1 /\ pc' = "CHALLENGE"
                      ELSE r' = r /\ pc' = "SYNTHESIZE"
  /\ UNCHANGED << seed_name, seed_text, rounds, agent_history, anti_history,
                  agent_response, anti_response, final_synthesis, agent_final,
                  anti_final, result, embeds,
                  mvars, cvars >>

\* Observe starting the round over when its call fails
ObserveRetriesRound(Rs) ==
  /\ pc = "OBSERVE"
  /\ \E resp \in Rs :
       LET msgs == << User(ObserverPrompt(r, seed_text, agent_response, anti_response)) >> IN
       /\ calls' = Append(calls, Call("OBSERVE", r, OBSERVER_SYSTEM, msgs, resp))
       /\ IF Falsy(resp)
            THEN /\ UNCHANGED << observer_reports, transcript >>
                 /\ r' = r /\ pc' = "CHALLENGE"
            ELSE /\ observer_reports' = Append(observer_reports, [round |-> r, text |-> resp])
                 /\ transcript' = Append(transcript, Turn(r, "observer", resp))
                 /\ IF r < rounds
                      THEN r' = r + 1 /\ pc' = "CHALLENGE"
                      ELSE r' = r /\ pc' = "SYNTHESIZE"
  /\ UNCHANGED << seed_name, seed_text, rounds, agent_history, anti_history,
                  agent_response, anti_response, final_synthesis, agent_final,
                  anti_final, result, embeds,
                  mvars, cvars >>

\* Observe sending its prompt as one more turn of the Agent history
ObserveInAgentHistory(Rs) ==
  /\ pc = "OBSERVE"
  /\ \E resp \in Rs :
       LET msgs == Append(agent_history, User(ObserverPrompt(r, seed_text, agent_response, anti_response))) IN
       /\ agent_history' = msgs
       /\ calls' = Append(calls, Call("OBSERVE", r, OBSERVER_SYSTEM, msgs, resp))
       /\ IF Falsy(resp)
            THEN UNCHANGED << observer_reports, transcript >>
            ELSE /\ observer_reports' = Append(observer_reports, [round |-> r, text |-> resp])
                 /\ transcript' = Append(transcript, Turn(r, "observer", resp))
  /\ IF r < rounds
       THEN r' = r + 1 /\ pc' = "CHALLENGE"
       ELSE r' = r /\ pc' = "SYNTHESIZE"
  /\ UNCHANGED << seed_name, seed_text, rounds, anti_history,
                  agent_response, anti_response, final_synthesis, agent_final,
                  anti_final, result, embeds,
                  mvars, cvars >>

\* Observe without the transcript.append of line 204
ObserveReportOnly(Rs) ==
  /\ pc = "OBSERVE"
  /\ \E resp \in Rs :
       LET msgs == << User(ObserverPrompt(r, seed_text, agent_response, anti_response)) >> IN
       /\ calls' = Append(calls, Call("OBSERVE", r, OBSERVER_SYSTEM, msgs, resp))
       /\ IF Falsy(resp)
            THEN UNCHANGED << observer_reports, transcript >>
            ELSE /\ observer_reports' = Append(observer_reports, [round |-> r, text |-> resp])
                 /\ UNCHANGED transcript
  /\ IF r < rounds
       THEN r' = r + 1 /\ pc' = "CHALLENGE"
       ELSE r' = r /\ pc' = "SYNTHESIZE"
  /\ UNCHANGED << seed_name, seed_text, rounds, agent_history, anti_history,
                  agent_response, anti_response, final_synthesis, agent_final,
                  anti_final, result, embeds,
                  mvars, cvars >>

\* lines 190-204, and the loop header of line 154 for the next iteration
Observe(Rs) ==
  /\ pc = "OBSERVE"
  /\ \E resp \in Rs :
       LET msgs == << User(ObserverPrompt(r, seed_text, agent_response, anti_response)) >> IN
       /\ calls' = Append(calls, Call("OBSERVE", r, OBSERVER_SYSTEM, msgs, resp))
       /\ IF Falsy(resp)
            THEN UNCHANGED << observer_reports, transcript >>
            ELSE /\ observer_reports' = Append(observer_reports, [round |-> r, text |-> resp])
                 /\ transcript' = Append(transcript, Turn(r, "observer", resp))
  /\ IF r < rounds
       THEN r' = r + 1 /\ pc' = "CHALLENGE"
       ELSE r' = r /\ pc' = "SYNTHESIZE"
  /\ UNCHANGED << seed_name, seed_text, rounds, agent_history, anti_history,
                  agent_response, anti_response, final_synthesis, agent_final,
                  anti_final, result, embeds,
                  mvars, cvars >>

\* Synthesize without the transcript.append of line 226
SynthesizeNoEntry(Rs) ==
  /\ pc = "SYNTHESIZE"
  /\ \E resp \in Rs :
       LET msgs == << User(FinalPrompt(rounds, seed_text, agent_response, anti_response)) >> IN
       /\ calls' = Append(calls, Call("SYNTHESIZE", FINAL, OBSERVER_SYSTEM, msgs, resp))
       /\ final_synthesis' = resp
       /\ UNCHANGED transcript
  /\ pc' = "AGENT_FINAL"
  /\ UNCHANGED << seed_name, seed_text, rounds, r, agent_history, anti_history,
                  observer_reports, agent_response, anti_response, agent_final,
                  anti_final, result, embeds,
                  mvars, cvars >>

\* lines 209-226
Synthesize(Rs) ==
  /\ pc = "SYNTHESIZE"
  /\ \E resp \in Rs :
       LET msgs == << User(FinalPrompt(rounds, seed_text, agent_response, anti_response)) >> IN
       /\ calls' = Append(calls, Call("SYNTHESIZE", FINAL, OBSERVER_SYSTEM, msgs, resp))
       /\ final_synthesis' = resp
       /\ IF Falsy(resp)
            THEN UNCHANGED transcript
            ELSE transcript' = Append(transcript, Turn(FINAL, "observer_synthesis", resp))
  /\ pc' = "AGENT_FINAL"
  /\ UNCHANGED << seed_name, seed_text, rounds, r, agent_history, anti_history,
                  observer_reports, agent_response, anti_response, agent_final,
                  anti_final, result, embeds,
                  mvars, cvars >>

\* AgentFinal returning to the measurement when its call fails, without
\* asking the Anti-Agent
AgentFinalGivesUp(Rs) ==
  /\ pc = "AGENT_FINAL"
  /\ \E resp \in Rs :
       LET msgs == Append(agent_history, User(FinalPositionPrompt)) IN
       /\ calls' = Append(calls, Call("AGENT_FINAL", FINAL, AGENT_SYSTEM, msgs, resp))
       /\ agent_history' = msgs
       /\ agent_final' = resp
       /\ pc' = IF Falsy(resp) THEN "MEASURE" ELSE "ANTI_FINAL"
  /\ UNCHANGED << seed_name, seed_text, rounds, r, anti_history, observer_reports,
                  transcript, agent_response, anti_response, final_synthesis,
                  anti_final, result, embeds,
                  mvars, cvars >>

\* lines 228-234
AgentFinal(Rs) ==
  /\ pc = "AGENT_FINAL"
  /\ \E resp \in Rs :
       LET msgs == Append(agent_history, User(FinalPositionPrompt)) IN
       /\ calls' = Append(calls, Call("AGENT_FINAL", FINAL, AGENT_SYSTEM, msgs, resp))
       /\ agent_history' = msgs
       /\ agent_final' = resp
  /\ pc' = "ANTI_FINAL"
  /\ UNCHANGED << seed_name, seed_text, rounds, r, anti_history, observer_reports,
                  transcript, agent_response, anti_response, final_synthesis,
                  anti_final, result, embeds,
                  mvars, cvars >>

\* lines 236-242
AntiFinal(Rs) ==
  /\ pc = "ANTI_FINAL"
  /\ \E resp \in Rs :
       LET msgs == Append(anti_history, User(FinalPositionPrompt)) IN
       /\ calls' = Append(calls, Call("ANTI_FINAL", FINAL, ANTI_AGENT_SYSTEM, msgs, resp))
       /\ anti_history' = msgs
       /\ anti_final' = resp
  /\ pc' = "MEASURE"
  /\ UNCHANGED << seed_name, seed_text, rounds, r, agent_history, observer_reports,
                  transcript, agent_response, anti_response, final_synthesis,
                  agent_final, result, embeds,
                  mvars, cvars >>

\* lines 245-254
BaseResult ==
  [seed |-> seed_text, seed_name |-> seed_name, rounds |-> rounds,
   transcript |-> transcript, observer_reports |-> observer_reports,
   final_synthesis |-> final_synthesis, agent_final |-> agent_final,
   anti_final |-> anti_final]

\* lines 256-263: the texts handed to the embedder, and their labels
TextsToCompare ==
  (IF Falsy(agent_final) THEN <<>> ELSE << [label |-> "agent", text |-> agent_final] >>)
  \o (IF Falsy(anti_final) THEN <<>> ELSE << [label |-> "anti_agent", text |-> anti_final] >>)
  \o (IF Falsy(final_synthesis) THEN <<>> ELSE << [label |-> "observer", text |-> final_synthesis] >>)

\* line 265 with the threshold off by one
HasTwo(texts) == Len(texts) >= 2

\* line 265
HasThree(texts) == Len(texts) >= 3

\* lines 279-283 and 294-295
WithSimilarities(res, aa, ao, an) ==
  [k \in DOMAIN res \cup {"similarities", "observer_equidistance"} |->
     IF k = "similarities"
       THEN [agent_anti |-> aa, agent_observer |-> ao, anti_observer |-> an]
     ELSE IF k = "observer_equidistance" THEN Abs(ao - an)
     ELSE res[k]]

\* lines 285-292 and 296-297: the verdict lines the scorer prints
ScorerLines(aa, ao, an) ==
  (IF ao < an THEN <<"CLOSER to the Anti-Agent">>
   ELSE IF ao > an THEN <<"CLOSER to the Agent">> ELSE <<>>)
  \o (IF aa > CONVERGED_ABOVE THEN <<"CONVERGED">>
      ELSE IF aa < DIVERGED_BELOW THEN <<"DIVERGED">> ELSE <<>>)
  \o (IF Abs(ao - an) < NOVEL_BELOW THEN <<"EQUIDISTANT">> ELSE <<>>)

\* lines 245-299: the measurement, and the return.  The similarity matrix is
\* the embedder's: any three values of the sets given.
Measure(AAs, Ss) ==
  /\ pc = "MEASURE"
  /\ LET texts == TextsToCompare IN
       IF HasThree(texts)
         THEN \E aa \in AAs, ao \in Ss, an \in Ss :
                /\ embeds' = Append(embeds, [i \in 1..Len(texts) |-> texts[i].text])
                /\ result' = WithSimilarities(BaseResult, aa, ao, an)
                /\ printed' = Append(printed, [seed_name |-> seed_name,
                                               lines |-> ScorerLines(aa, ao, an)])
         ELSE /\ result' = BaseResult
              /\ UNCHANGED << embeds, printed >>
  /\ pc' = "returned"
  /\ UNCHANGED << seed_name, seed_text, rounds, r, agent_history, anti_history,
                  observer_reports, transcript, agent_response, anti_response,
                  final_synthesis, agent_final, anti_final, calls,
                  mpc, seed_i, all_results, runs, table, eqtable, saved, cvars >>

(* ---- main ------------------------------------------------------------- *)
\* d[k] = v on a dict kept as the sequence of its items in insertion order
DictSet(d, k, v) ==
  IF \E i \in 1..Len(d) : d[i].key = k
    THEN [i \in 1..Len(d) |-> IF d[i].key = k THEN [key |-> k, value |-> v] ELSE d[i]]
    ELSE Append(d, [key |-> k, value |-> v])

\* lines 341-344: _save(data, filename), as the write it makes
Save(data, filename) == [file |-> filename, data |-> data]

\* lines 311-312: the loop takes the next seed and calls run_dialectic
StartSeed ==
  /\ mpc = "loop"
  /\ pc = "idle"
  /\ seed_i <= Len(SeedList)
  /\ Enter(SeedList[seed_i].name, SeedList[seed_i].text, Rounds)
  /\ runs' = Append(runs, SeedList[seed_i].name)
  /\ UNCHANGED << mpc, seed_i, all_results, printed, table, eqtable, saved, cvars >>

\* FinishSeed leaving the loop when the seed's result is an error result
FinishSeedStopOnError ==
  /\ mpc = "loop"
  /\ pc = "returned"
  /\ LET stored == DictSet(all_results, seed_name, result) IN
       /\ all_results' = stored
       /\ saved' = Append(saved, Save(stored, "third_eye_partial.json"))
  /\ seed_i' = seed_i + 1
  /\ mpc' = IF seed_i < Len(SeedList) /\ DOMAIN result # {"error"} THEN "loop" ELSE "summary"
  /\ Leave
  /\ UNCHANGED << runs, printed, table, eqtable, cvars >>

\* FinishSeed with lines 313 and 314 swapped: the snapshot is written before
\* the result is stored
FinishSeedSaveFirst ==
  /\ mpc = "loop"
  /\ pc = "returned"
  /\ LET stored == DictSet(all_results, seed_name, result) IN
       /\ all_results' = stored
       /\ saved' = Append(saved, Save(all_results, "third_eye_partial.json"))
  /\ seed_i' = seed_i + 1
  /\ mpc' = IF seed_i < Len(SeedList) THEN "loop" ELSE "summary"
  /\ Leave
  /\ UNCHANGED << runs, printed, table, eqtable, cvars >>

\* lines 313-314: run_dialectic has returned; store, snapshot, next seed
FinishSeed ==
  /\ mpc = "loop"
  /\ pc = "returned"
  /\ LET stored == DictSet(all_results, seed_name, result) IN
       /\ all_results' = stored
       /\ saved' = Append(saved, Save(stored, "third_eye_partial.json"))
  /\ seed_i' = seed_i + 1
  /\ mpc' = IF seed_i < Len(SeedList) THEN "loop" ELSE "summary"
  /\ Leave
  /\ UNCHANGED << runs, printed, table, eqtable, cvars >>

\* line 322: result.get("similarities", {}) is non-empty
HasSims(res) == "similarities" \in DOMAIN res

\* line 327 with >= for the first comparison: a tie goes to the Agent
WinnerTieToAgent(ao, an) == IF ao >= an THEN "AGENT" ELSE IF an > ao THEN "SKEPTIC" ELSE "NOVEL"

\* line 327
Winner(ao, an) == IF ao > an THEN "AGENT" ELSE IF an > ao THEN "SKEPTIC" ELSE "NOVEL"

\* line 332: result.get("observer_equidistance", 999)
Equidistance(res) ==
  IF "observer_equidistance" \in DOMAIN res THEN res.observer_equidistance ELSE EQ_DEFAULT

\* line 333 with <= for the first threshold
VerdictInclusive(eq) == IF eq <= NOVEL_BELOW THEN "NOVEL" ELSE IF eq < LEANS_BELOW THEN "LEANS" ELSE "SIDED"

\* line 333
Verdict(eq) == IF eq < NOVEL_BELOW THEN "NOVEL" ELSE IF eq < LEANS_BELOW THEN "LEANS" ELSE "SIDED"

RECURSIVE WinnerRows(_)
\* lines 321-328: one row per result that has similarities
WinnerRows(d) ==
  IF d = <<>> THEN <<>>
  ELSE LET res == Head(d).value IN
       (IF HasSims(res)
          THEN << [name |-> Head(d).key,
                   winner |-> Winner(res.similarities.agent_observer,
                                     res.similarities.anti_observer)] >>
          ELSE <<>>)
       \o WinnerRows(Tail(d))

\* lines 331-334: one row per result
VerdictRows(d) ==
  [i \in 1..Len(d) |-> [name |-> d[i].key, eq |-> Equidistance(d[i].value),
                        verdict |-> Verdict(Equidistance(d[i].value))]]

\* lines 316-338: the two tables and the final save
Summary ==
  /\ mpc = "summary"
  /\ table' = WinnerRows(all_results)
  /\ eqtable' = VerdictRows(all_results)
  /\ saved' = Append(saved, Save(all_results, "third_eye_results.json"))
  /\ mpc' = "done"
  /\ UNCHANGED << dvars, seed_i, all_results, runs, printed, cvars >>

InitMain ==
  /\ NoFrame
  /\ MainAtStart
  /\ NoCall

NextMain ==
  \/ StartSeed
  \/ InitStep(MainResponses)
  \/ Challenge(MainResponses)
  \/ Defend(MainResponses)
  \/ Observe(MainResponses)
  \/ Synthesize(MainResponses)
  \/ AgentFinal(MainResponses)
  \/ AntiFinal(MainResponses)
  \/ Measure(MainAgentAntiValues, MainSimValues)
  \/ FinishSeed
  \/ Summary

SpecMain == InitMain /\ [][NextMain]_vars

\* main() is straight-line code in one thread and every completion call
\* returns: a step that can be taken is taken
SpecMainFair == SpecMain /\ WF_vars(NextMain)

(* ---- call_opus -------------------------------------------------------- *)
\* texts the endpoint can put in the first content block
RawTexts == {"a", " a\n", "b ", "", " \n"}

Whitespace == {" ", "\n", "\t"}

RECURSIVE LStrip(_)
LStrip(t) ==
  IF Len(t) > 0 /\ SubSeq(t, 1, 1) \in Whitespace THEN LStrip(SubSeq(t, 2, Len(t))) ELSE t

RECURSIVE RStrip(_)
RStrip(t) ==
  IF Len(t) > 0 /\ SubSeq(t, Len(t), Len(t)) \in Whitespace
    THEN RStrip(SubSeq(t, 1, Len(t) - 1)) ELSE t

\* line 106: str.strip()
Strip(t) == RStrip(LStrip(t))

RECURSIVE Pow2(_)
Pow2(n) == IF n = 0 THEN 1 ELSE 2 * Pow2(n - 1)

\* line 111: min(10 * (2 ** attempt), 120)
HttpBackoff(att) == Min(BACKOFF_BASE * Pow2(att), BACKOFF_CAP)

\* line 114
OtherBackoff(att) == FLAT_SLEEP

\* a time.sleep(secs) call, with the line that makes it
Sleep(line, secs) == [line |-> line, secs |-> secs]

\* AfterFailure with the loop bound off by one: a seventh attempt is made
AfterFailureOneMore ==
  /\ attempt' = attempt + 1
  /\ IF attempt + 1 <= RETRIES
       THEN cpc' = "loop" /\ ret' = ret
       ELSE cpc' = "returned" /\ ret' = None

\* lines 84 and 115: after a failed attempt the loop goes on, or is exhausted
\* and call_opus returns None
AfterFailure ==
  /\ attempt' = attempt + 1
  /\ IF attempt + 1 < RETRIES
       THEN cpc' = "loop" /\ ret' = ret
       ELSE cpc' = "returned" /\ ret' = None

\* lines 85-106: the request is answered and the text is there
AttemptOk ==
  /\ cpc = "loop"
  /\ attempt < RETRIES
  /\ \E raw \in RawTexts :
       /\ requests' = requests + 1
       /\ sleeps' = Append(sleeps, Sleep(105, SUCCESS_SLEEP))
       /\ ret' = Strip(raw)
       /\ cpc' = "returned"
  /\ UNCHANGED << attempt, dvars, mvars >>

\* lines 107-111: urlopen raises HTTPError (reading and decoding the error
\* body at line 108 is taken to succeed)
AttemptHTTPError ==
  /\ cpc = "loop"
  /\ attempt < RETRIES
  /\ requests' = requests + 1
  /\ sleeps' = IF attempt < RETRIES - 1
                 THEN Append(sleeps, Sleep(111, HttpBackoff(attempt)))
                 ELSE sleeps
  /\ AfterFailure
  /\ UNCHANGED << dvars, mvars >>

\* lines 112-114: urlopen, read or json.loads raises something else
AttemptError ==
  /\ cpc = "loop"
  /\ attempt < RETRIES
  /\ requests' = requests + 1
  /\ sleeps' = IF attempt < RETRIES - 1
                 THEN Append(sleeps, Sleep(114, OtherBackoff(attempt)))
                 ELSE sleeps
  /\ AfterFailure
  /\ UNCHANGED << dvars, mvars >>

\* lines 104-106 and 112-114: the body parses but body["content"][0]["text"]
\* is not there: the sleep of line 105 is taken, then line 106 raises
AttemptBadBody ==
  /\ cpc = "loop"
  /\ attempt < RETRIES
  /\ requests' = requests + 1
  /\ sleeps' = IF attempt < RETRIES - 1
                 THEN sleeps \o << Sleep(105, SUCCESS_SLEEP), Sleep(114, OtherBackoff(attempt)) >>
                 ELSE Append(sleeps, Sleep(105, SUCCESS_SLEEP))
  /\ AfterFailure
  /\ UNCHANGED << dvars, mvars >>

\* call_opus(messages, system_prompt) entered with the default retries
InitCall ==
  /\ NoFrame
  /\ NoMain
  /\ cpc = "loop"
  /\ attempt = 0
  /\ ret = None
  /\ requests = 0
  /\ sleeps = <<>>

NextCall ==
  \/ AttemptOk
  \/ AttemptHTTPError
  \/ AttemptError
  \/ AttemptBadBody

SpecCall == InitCall /\ [][NextCall]_vars

\* call_opus is straight-line code in one thread and every attempt ends (the
\* request has a timeout, the sleeps are finite): an attempt that can be made
\* is made
SpecCallFair == SpecCall /\ WF_vars(NextCall)

Next ==
  \/ RunDialectic
  \/ InitStep(Responses)
  \/ Challenge(Responses)
  \/ Defend(Responses)
  \/ Observe(Responses)
  \/ Synthesize(Responses)
  \/ AgentFinal(Responses)
  \/ AntiFinal(Responses)
  \/ Measure(RunAgentAntiValues, RunSimValues)

Spec == Init /\ [][Next]_vars
(* ======================================================================= *)
(* Claims                                                                  *)
(* ======================================================================= *)

\* the calls of the log made by the steps in S, in order
RECURSIVE CallsOf(_, _)
CallsOf(cs, S) ==
  IF cs = <<>> THEN <<>>
  ELSE (IF Head(cs).step \in S THEN <<Head(cs)>> ELSE <<>>) \o CallsOf(Tail(cs), S)

\* the calls of the log that came back with a text
RECURSIVE Succeeded(_)
Succeeded(cs) ==
  IF cs = <<>> THEN <<>>
  ELSE (IF Falsy(Head(cs).ret) THEN <<>> ELSE <<Head(cs)>>) \o Succeeded(Tail(cs))

Last(q) == q[Len(q)]

RoleOfStep(step) ==
  CASE step = "INIT" -> "agent"
    [] step = "CHALLENGE" -> "anti_agent"
    [] step = "DEFEND" -> "agent"
    [] step = "OBSERVE" -> "observer"
    [] step = "SYNTHESIZE" -> "observer_synthesis"

LoopSteps == {"INIT", "CHALLENGE", "DEFEND", "OBSERVE"}
LoopRoles == {"anti_agent", "agent", "observer"}

\* the turns the successful INIT / round-loop calls of cs returned, in order
TurnsReturned(cs) ==
  LET ok == Succeeded(CallsOf(cs, LoopSteps)) IN
  [i \in 1..Len(ok) |-> Turn(ok[i].round, RoleOfStep(ok[i].step), ok[i].ret)]

RECURSIVE LoopTurns(_)
\* the transcript without the synthesis entry
LoopTurns(t) ==
  IF t = <<>> THEN <<>>
  ELSE (IF Head(t).role = "observer_synthesis" THEN <<>> ELSE <<Head(t)>>) \o LoopTurns(Tail(t))

HasCall(step) == \E j \in 1..Len(calls) : calls[j].step = step
AfterSynthesis == pc \in {"AGENT_FINAL", "ANTI_FINAL", "MEASURE", "returned"}
IsError(res) == DOMAIN res = {"error"}

(* ---- C1 --------------------------------------------------------------- *)
Alternates(h) ==
  \A i \in 1..Len(h) : h[i].role = (IF i % 2 = 1 THEN "user" ELSE "assistant")

\* C1: in every reachable state of a run, the Agent history and the
\* Anti-Agent history each alternate user/assistant entries starting with a
\* user entry (so never two user entries in a row).
C1_HistoriesAlternate ==
  Alternates(agent_history) /\ Alternates(anti_history)

(* ---- C2 --------------------------------------------------------------- *)
AgentSteps == {"INIT", "DEFEND"}
AntiSteps == {"CHALLENGE"}

\* the round loop was ended by a failed CHALLENGE or DEFEND before call j
AbortedBefore(j) ==
  /\ j > 1
  /\ calls[j - 1].step \in {"CHALLENGE", "DEFEND"}
  /\ Falsy(calls[j - 1].ret)

\* position `given` in a prompt is the text of the most recent successful
\* call among the steps S before call j, and no failure value in any case
IsLastSuccessful(given, S, j) ==
  LET ok == Succeeded(CallsOf(SubSeq(calls, 1, j - 1), S)) IN
  /\ given \notin {Fmt(None), Fmt("")}
  /\ ok # <<>> => given = Last(ok).ret

\* C2: when a CHALLENGE or DEFEND call fails and the loop is aborted, the
\* Agent position and the Anti-Agent position in the synthesis prompt are
\* each the text of that role's most recent successful call, never the
\* failed call's value.
C2_SynthesisUsesLastSuccessful ==
  \A j \in 1..Len(calls) :
    (calls[j].step = "SYNTHESIZE" /\ AbortedBefore(j)) =>
      LET prompt == calls[j].messages[1].content IN
      /\ IsLastSuccessful(prompt[4], AgentSteps, j)
      /\ IsLastSuccessful(prompt[5], AntiSteps, j)

(* ---- C3 --------------------------------------------------------------- *)
ChallengeFailedAt(j) == calls[j].step = "CHALLENGE" /\ Falsy(calls[j].ret)

\* C3: if the CHALLENGE call fails in round k, the transcript holds exactly
\* the turns returned through round k-1, no anti_agent, agent or observer
\* turn of round k or later, and the synthesis call is the next call made
\* (and has been made once the run is past the synthesis step).
C3_ChallengeFailureAbortsCleanly ==
  \A j \in 1..Len(calls) :
    ChallengeFailedAt(j) =>
      LET k == calls[j].round IN
      /\ LoopTurns(transcript) = TurnsReturned(SubSeq(calls, 1, j - 1))
      /\ \A i \in 1..Len(transcript) :
           transcript[i].role \in LoopRoles => transcript[i].round < k
      /\ j < Len(calls) => calls[j + 1].step = "SYNTHESIZE"
      /\ j = Len(calls) => pc = "SYNTHESIZE"
      /\ pc = "returned" => /\ HasCall("SYNTHESIZE")
                            /\ ~IsError(result)
                            /\ LoopTurns(result.transcript) = TurnsReturned(SubSeq(calls, 1, j - 1))

\* a run that returned after CHALLENGE failed in round 2, round 1 complete
C3_Witness ==
  /\ pc = "returned"
  /\ \E j \in 1..Len(calls) : ChallengeFailedAt(j) /\ calls[j].round = 2
  /\ \E i \in 1..Len(transcript) : transcript[i].role = "observer" /\ transcript[i].round = 1
  /\ HasCall("SYNTHESIZE")

(* ---- C4 --------------------------------------------------------------- *)
RECURSIVE BackoffSleeps(_)
\* the sleeps taken between attempts (lines 111 and 114)
BackoffSleeps(sl) ==
  IF sl = <<>> THEN <<>>
  ELSE (IF Head(sl).line \in {111, 114} THEN <<Head(sl).secs>> ELSE <<>>) \o BackoffSleeps(Tail(sl))

NonDecreasing(q) == \A i \in 1..(Len(q) - 1) : q[i] <= q[i + 1]

\* call_opus returned from a successful attempt
ReturnedSuccess == cpc = "returned" /\ ret # None

\* C4: if the first N-1 attempts fail (any mix of HTTP errors and other
\* errors) and attempt N <= 6 succeeds, call_opus returns the text after
\* exactly N-1 backoff sleeps, whose durations are non-decreasing and at
\* most 120 seconds.
C4_BackoffNonDecreasing ==
  ReturnedSuccess =>
    LET b == BackoffSleeps(sleeps) IN
    /\ requests = attempt + 1
    /\ requests <= RETRIES
    /\ Len(b) = requests - 1
    /\ NonDecreasing(b)
    /\ \A i \in 1..Len(b) : b[i] <= BACKOFF_CAP

(* ---- C5 --------------------------------------------------------------- *)
Truthy(x) == ~Falsy(x)
AllThreeFinals(res) ==
  Truthy(res.agent_final) /\ Truthy(res.anti_final) /\ Truthy(res.final_synthesis)

\* C5: a returned result has a similarity block, and an
\* observer_equidistance, exactly when agent_final, anti_final and
\* final_synthesis are all present and non-empty; otherwise it has neither
\* and the embedder was not invoked.
C5_SimilarityIffAllThree ==
  /\ pc # "returned" => embeds = <<>>
  /\ pc = "returned" =>
       IF IsError(result)
         THEN embeds = <<>>
         ELSE /\ HasSims(result) <=> AllThreeFinals(result)
              /\ ("observer_equidistance" \in DOMAIN result) <=> AllThreeFinals(result)
              /\ (embeds # <<>>) <=> AllThreeFinals(result)
              /\ Len(embeds) <= 1
              /\ result.agent_final = agent_final
              /\ result.anti_final = anti_final
              /\ result.final_synthesis = final_synthesis

\* a result with a similarity block
C5_Witness ==
  /\ pc = "returned"
  /\ HasSims(result)
  /\ Len(embeds) = 1

(* ---- C6 --------------------------------------------------------------- *)
InitFailed == calls # <<>> /\ calls[1].step = "INIT" /\ Falsy(calls[1].ret)

\* C6: if the INIT call fails, the run ends at once with an error-tagged
\* result that has no transcript, and no further completion call is made.
C6_InitFailureIsFatal ==
  InitFailed =>
    /\ Len(calls) = 1
    /\ pc = "returned"
    /\ IsError(result)
    /\ embeds = <<>>

\* INIT came back with the empty string
C6_Witness == InitFailed /\ calls[1].ret = "" /\ pc = "returned"

(* ---- C7 --------------------------------------------------------------- *)
SeedNames == [i \in 1..Len(SeedList) |-> SeedList[i].name]
Keys(d) == [i \in 1..Len(d) |-> d[i].key]
IsPartialOrError(res) == IsError(res) \/ "transcript" \in DOMAIN res

\* C7: the driver runs every seed exactly once, in the order of SEEDS,
\* whatever the completion calls do: each finished seed has an error-tagged
\* or partial result stored under its name, and the seeds after it are run.
C7_EverySeedOnceInOrder ==
  /\ Len(runs) <= Len(SeedList)
  /\ runs = SubSeq(SeedNames, 1, Len(runs))
  /\ Keys(all_results) = SubSeq(SeedNames, 1, Len(all_results))
  /\ \A i \in 1..Len(all_results) : IsPartialOrError(all_results[i].value)
  /\ Len(runs) = Len(all_results) + (IF pc = "idle" THEN 0 ELSE 1)
  /\ (mpc = "loop" /\ pc = "idle") => seed_i = Len(all_results) + 1
  /\ mpc \in {"summary", "done"} => Len(all_results) = Len(SeedList)

\* the first seed failed at INIT and the driver went through all seeds
C7_Witness ==
  /\ mpc = "done"
  /\ IsError(all_results[1].value)
  /\ ~IsError(all_results[Len(SeedList)].value)
  /\ runs = SeedNames

(* ---- C8 --------------------------------------------------------------- *)
RECURSIVE NamesWithSims(_)
NamesWithSims(d) ==
  IF d = <<>> THEN <<>>
  ELSE (IF HasSims(Head(d).value) THEN <<Head(d).key>> ELSE <<>>) \o NamesWithSims(Tail(d))

RowNames(rows) == [i \in 1..Len(rows) |-> rows[i].name]

\* C8: in the cross-seed summary a winner label and an equidistance label
\* are produced for each seed whose result has similarity data, and for no
\* seed whose result lacks it.
C8_LabelsOnlyWithSimilarities ==
  mpc = "done" =>
    /\ RowNames(table) = NamesWithSims(all_results)
    /\ RowNames(eqtable) = NamesWithSims(all_results)

(* ---- C9 --------------------------------------------------------------- *)
AllCallsSucceeded == \A j \in 1..Len(calls) : Truthy(calls[j].ret)

\* the transcript of a run of n rounds in which nothing failed
FullShape(t, n) ==
  /\ Len(t) = 3 * n + 2
  /\ t[1].round = 0 /\ t[1].role = "agent"
  /\ \A k \in 1..n :
       /\ t[3 * k - 1].round = k /\ t[3 * k - 1].role = "anti_agent"
       /\ t[3 * k].round = k /\ t[3 * k].role = "agent"
       /\ t[3 * k + 1].round = k /\ t[3 * k + 1].role = "observer"
  /\ t[3 * n + 2].round = FINAL /\ t[3 * n + 2].role = "observer_synthesis"

\* C9: when every completion call succeeds, a run of R rounds has a
\* transcript of the round-0 agent turn, then an anti_agent, an agent and an
\* observer turn per round, then one observer_synthesis entry: 3R + 2
\* entries, 8 for R = 2.
C9_FullTranscriptShape ==
  (AfterSynthesis /\ AllCallsSucceeded) =>
    /\ FullShape(transcript, rounds)
    /\ rounds = 2 => Len(transcript) = 8
    /\ pc = "returned" => result.transcript = transcript

\* a returned run in which every call succeeded
C9_Witness ==
  /\ pc = "returned"
  /\ AllCallsSucceeded
  /\ Len(calls) = 3 * Rounds + 4
  /\ Len(transcript) = 3 * Rounds + 2

(* ---- C10 -------------------------------------------------------------- *)
ObserveFailedAt(j) == calls[j].step = "OBSERVE" /\ Falsy(calls[j].ret)

HasTurn(t, rnd, role) == \E i \in 1..Len(t) : t[i].round = rnd /\ t[i].role = role

\* C10: a failed OBSERVE call of round q records no observer report and no
\* observer turn for round q, keeps the anti_agent and agent turns of round
\* q, and, if q < R, is followed by the CHALLENGE of round q + 1.
C10_ObserveFailureNonFatal ==
  \A j \in 1..Len(calls) :
    ObserveFailedAt(j) =>
      LET q == calls[j].round IN
      /\ \A i \in 1..Len(observer_reports) : observer_reports[i].round # q
      /\ ~HasTurn(transcript, q, "observer")
      /\ HasTurn(transcript, q, "anti_agent")
      /\ HasTurn(transcript, q, "agent")
      /\ (q < rounds /\ j < Len(calls)) =>
           calls[j + 1].step = "CHALLENGE" /\ calls[j + 1].round = q + 1
      /\ (q < rounds /\ j = Len(calls)) => pc = "CHALLENGE" /\ r = q + 1
      /\ q = rounds => (IF j < Len(calls) THEN calls[j + 1].step = "SYNTHESIZE"
                                          ELSE pc = "SYNTHESIZE")

\* OBSERVE failed in round 1 and the CHALLENGE of round 2 was made
C10_Witness ==
  \E j \in 1..(Len(calls) - 1) :
    /\ ObserveFailedAt(j)
    /\ calls[j].round = 1
    /\ calls[j + 1].step = "CHALLENGE"
    /\ calls[j + 1].round = 2
    /\ HasTurn(transcript, 2, "anti_agent")

(* ---- C11 -------------------------------------------------------------- *)
C11_Safety ==
  /\ cpc \in {"loop", "returned"}
  /\ requests <= RETRIES
  /\ cpc = "loop" => (requests = attempt /\ attempt < RETRIES)
  /\ (cpc = "returned" /\ ret = None) => (requests = RETRIES /\ attempt = RETRIES)
  /\ (cpc = "returned" /\ ret # None) => requests = attempt + 1

PARTIAL_FILE == "third_eye_partial.json"
RESULTS_FILE == "third_eye_results.json"

RECURSIVE WritesTo(_, _)
\* the data of the writes made to one file, in order
WritesTo(sv, f) ==
  IF sv = <<>> THEN <<>>
  ELSE (IF Head(sv).file = f THEN <<Head(sv).data>> ELSE <<>>) \o WritesTo(Tail(sv), f)

\* C12: after the i-th seed's run returns, a snapshot holding exactly the
\* results of seeds 1..i, keyed by seed name, is written before the run of
\* seed i+1 starts; after the last seed the final snapshot is written once
\* and holds a result for every seed.
C12_SnapshotAfterEverySeed ==
  LET partial == WritesTo(saved, PARTIAL_FILE)
      final == WritesTo(saved, RESULTS_FILE) IN
  /\ Len(partial) = Len(all_results)
  /\ \A i \in 1..Len(partial) :
       /\ partial[i] = SubSeq(all_results, 1, i)
       /\ Keys(partial[i]) = SubSeq(SeedNames, 1, i)
       /\ \A n \in 1..Len(saved) : saved[n].file = RESULTS_FILE => n > i
  /\ Len(runs) <= Len(partial) + 1
  /\ pc \notin {"idle", "returned"} => Len(runs) = Len(partial) + 1
  /\ Len(final) = (IF mpc = "done" THEN 1 ELSE 0)
  /\ mpc = "done" => /\ final[1] = all_results
                     /\ Keys(final[1]) = SeedNames
                     /\ Len(partial) = Len(SeedList)
                     /\ Last(saved).file = RESULTS_FILE

\* the driver is done: one snapshot per seed, then the final one
C12_Witness ==
  /\ mpc = "done"
  /\ Len(saved) = Len(SeedList) + 1
  /\ Len(saved[1].data) = 1
  /\ ~IsError(saved[1].data[1].value)

(* ---- C13 -------------------------------------------------------------- *)
\* the row of a table for the seed called n
RowOf(rows, n) == rows[CHOOSE i \in 1..Len(rows) : rows[i].name = n]

\* the label the claim gives an equidistance (x100)
LabelOf(eq) ==
  CASE eq < 10 -> "NOVEL"
    [] eq >= 10 /\ eq < 20 -> "LEANS"
    [] OTHER -> "SIDED"

\* C13: whenever a similarity block is computed, observer_equidistance is
\* |agent_observer - anti_observer| and non-negative, and the driver labels
\* it NOVEL below 0.1, LEANS from 0.1 to below 0.2, SIDED otherwise;
\* (0.81, 0.40) gives winner AGENT and 0.41 SIDED, (0.55, 0.50) gives 0.05
\* NOVEL.
C13_EquidistanceAndLabel ==
  /\ (pc = "returned" /\ HasSims(result)) =>
       /\ result.observer_equidistance =
            Abs(result.similarities.agent_observer - result.similarities.anti_observer)
       /\ result.observer_equidistance >= 0
  /\ mpc = "done" =>
       \A i \in 1..Len(all_results) :
         LET res == all_results[i].value
             n == all_results[i].key IN
         HasSims(res) =>
           LET ao == res.similarities.agent_observer
               an == res.similarities.anti_observer
               eq == res.observer_equidistance IN
           /\ eq = Abs(ao - an)
           /\ eq >= 0
           /\ eqtable[i].name = n
           /\ eqtable[i].eq = eq
           /\ eqtable[i].verdict = LabelOf(eq)
           /\ (ao = 81 /\ an = 40) =>
                /\ RowOf(table, n).winner = "AGENT"
                /\ eq = 41
                /\ eqtable[i].verdict = "SIDED"
           /\ (ao = 55 /\ an = 50) =>
                /\ eq = 5
                /\ eqtable[i].verdict = "NOVEL"

\* the driver is done with one seed at (0.81, 0.40) and one at (0.50, 0.40),
\* whose equidistance is exactly 0.1
C13_Witness ==
  /\ mpc = "done"
  /\ HasSims(all_results[1].value)
  /\ all_results[1].value.similarities.agent_observer = 81
  /\ all_results[1].value.similarities.anti_observer = 40
  /\ HasSims(all_results[2].value)
  /\ all_results[2].value.observer_equidistance = 10
  /\ eqtable[2].verdict = "LEANS"

(* ---- C14 -------------------------------------------------------------- *)
FinalSteps == <<"SYNTHESIZE", "AGENT_FINAL", "ANTI_FINAL">>

Steps(cs) == [i \in 1..Len(cs) |-> cs[i].step]

\* how many of the three closing calls a run at pc has made
ClosingCallsMade ==
  CASE pc = "AGENT_FINAL" -> 1
    [] pc = "ANTI_FINAL" -> 2
    [] pc \in {"MEASURE", "returned"} -> 3
    [] OTHER -> 0

\* C14: in every run that gets past INIT, the synthesis call, the Agent
\* final-position call and the Anti-Agent final-position call are each made
\* exactly once, in that order, whatever the round loop and the other two
\* calls did; each of the three result fields is what its own call returned.
C14_ClosingCallsEachOnce ==
  ~InitFailed =>
    LET closing == CallsOf(calls, {"SYNTHESIZE", "AGENT_FINAL", "ANTI_FINAL"}) IN
    /\ Steps(closing) = SubSeq(FinalSteps, 1, ClosingCallsMade)
    /\ closing = SubSeq(calls, Len(calls) - Len(closing) + 1, Len(calls))
    /\ pc = "returned" =>
         /\ ~IsError(result)
         /\ result.final_synthesis = closing[1].ret
         /\ result.agent_final = closing[2].ret
         /\ result.anti_final = closing[3].ret

\* a returned run whose synthesis and Agent final-position calls failed and
\* whose Anti-Agent final-position call succeeded
C14_Witness ==
  /\ pc = "returned"
  /\ ~InitFailed
  /\ Falsy(result.final_synthesis)
  /\ Falsy(result.agent_final)
  /\ Truthy(result.anti_final)
  /\ Len(CallsOf(calls, {"ANTI_FINAL"})) = 1

(* ---- C15 -------------------------------------------------------------- *)
\* the turns the round loop recorded: all but the round-0 turn and the
\* synthesis entry
RoundTurns(t) == IF LoopTurns(t) = <<>> THEN <<>> ELSE Tail(LoopTurns(t))

HasTurnBefore(t, i, rnd, role) ==
  \E j \in 1..(i - 1) : t[j].round = rnd /\ t[j].role = role

\* C15: the round indices of the turns the round loop records start at 1,
\* never decrease, never skip a value and never exceed R; a turn of round
\* q + 1 comes only after the anti_agent and the agent turn of round q.
C15_RoundIndicesMonotone ==
  LET t == RoundTurns(transcript) IN
  /\ t # <<>> => t[1].round = 1
  /\ \A i \in 1..Len(t) :
       /\ t[i].round >= 1
       /\ t[i].round <= rounds
       /\ i > 1 => t[i].round \in {t[i - 1].round, t[i - 1].round + 1}
       /\ t[i].round > 1 =>
            /\ HasTurnBefore(t, i, t[i].round - 1, "anti_agent")
            /\ HasTurnBefore(t, i, t[i].round - 1, "agent")

\* the last round's turns are recorded
C15_Witness ==
  /\ HasTurn(transcript, Rounds, "observer")
  /\ HasTurn(transcript, 1, "agent")
  /\ ~HasTurn(transcript, 1, "observer")

(* ---- C16 -------------------------------------------------------------- *)
DefendFailedAt(j) == calls[j].step = "DEFEND" /\ Falsy(calls[j].ret)

\* C16: if the DEFEND call fails in round k, no call and no turn of a later
\* round follows, the transcript keeps every turn returned before it (the
\* anti_agent turn of round k among them), holds no agent or observer turn of
\* round k, and the synthesis call is the next call made, the two
\* final-position calls following it.
C16_DefendFailureAbortsLoop ==
  \A j \in 1..Len(calls) :
    DefendFailedAt(j) =>
      LET k == calls[j].round IN
      /\ LoopTurns(transcript) = TurnsReturned(SubSeq(calls, 1, j - 1))
      /\ HasTurn(transcript, k, "anti_agent")
      /\ ~HasTurn(transcript, k, "agent")
      /\ ~HasTurn(transcript, k, "observer")
      /\ \A i \in 1..Len(transcript) :
           transcript[i].role \in LoopRoles => transcript[i].round <= k
      /\ \A i \in (j + 1)..Len(calls) : calls[i].step \notin LoopSteps
      /\ j < Len(calls) => calls[j + 1].step = "SYNTHESIZE"
      /\ j = Len(calls) => pc = "SYNTHESIZE"
      /\ pc = "returned" =>
           /\ HasCall("SYNTHESIZE") /\ HasCall("AGENT_FINAL") /\ HasCall("ANTI_FINAL")
           /\ ~IsError(result)
           /\ LoopTurns(result.transcript) = TurnsReturned(SubSeq(calls, 1, j - 1))

\* a run that returned after DEFEND failed in round 1, before the last round
C16_Witness ==
  /\ pc = "returned"
  /\ \E j \in 1..Len(calls) : DefendFailedAt(j) /\ calls[j].round = 1
  /\ Rounds > 1
  /\ HasTurn(transcript, 1, "anti_agent")
  /\ HasCall("ANTI_FINAL")

(* ---- C17 -------------------------------------------------------------- *)
Says(lines, l) == \E i \in 1..Len(lines) : lines[i] = l

\* the result the driver stored for the seed called n
ResultOf(n) == all_results[CHOOSE i \in 1..Len(all_results) : all_results[i].key = n].value

\* C17: for every seed with a similarity block the scorer's verdict and the
\* driver's winner label are about the same pair and agree: SKEPTIC exactly
\* when the scorer says closer to the Anti-Agent (agent_observer <
\* anti_observer), AGENT exactly when it says closer to the Agent, NOVEL
\* exactly on a tie, where the scorer says neither; on a tie the
\* equidistance label is NOVEL too.
C17_ScorerAndWinnerAgree ==
  mpc = "done" =>
    /\ Len(printed) = Len(table)
    /\ \A i \in 1..Len(table) :
         LET n == table[i].name
             lines == printed[i].lines
             ao == ResultOf(n).similarities.agent_observer
             an == ResultOf(n).similarities.anti_observer
             toAnti == Says(lines, "CLOSER to the Anti-Agent")
             toAgent == Says(lines, "CLOSER to the Agent") IN
         /\ printed[i].seed_name = n
         /\ HasSims(ResultOf(n))
         /\ table[i].winner \in {"SKEPTIC", "AGENT", "NOVEL"}
         /\ toAnti <=> ao < an
         /\ toAgent <=> ao > an
         /\ table[i].winner = "SKEPTIC" <=> toAnti
         /\ table[i].winner = "AGENT" <=> toAgent
         /\ table[i].winner = "NOVEL" <=> ao = an
         /\ ao = an => /\ ~toAnti /\ ~toAgent
                       /\ RowOf(eqtable, n).verdict = "NOVEL"

\* the driver is done with a seed whose observer similarities tie and a seed
\* the Anti-Agent won
C17_Witness ==
  /\ mpc = "done"
  /\ \E i \in 1..Len(table) : table[i].winner = "NOVEL"
  /\ \E i \in 1..Len(table) : table[i].winner = "SKEPTIC"

(* ---- C18 -------------------------------------------------------------- *)
IsPrefix(p, q) == Len(p) <= Len(q) /\ SubSeq(q, 1, Len(p)) = p

AgentHistorySteps == {"INIT", "DEFEND", "AGENT_FINAL"}
AntiHistorySteps == {"CHALLENGE", "ANTI_FINAL"}
ObserverSteps == {"OBSERVE", "SYNTHESIZE"}

\* the step of the call a transition makes, "" when it makes none
StepMade(before, after) ==
  IF Len(after) = Len(before) + 1 THEN Last(after).step ELSE ""

\* C18: every Observer call (OBSERVE, SYNTHESIZE) is sent with exactly one
\* message, a user message, and leaves both histories as they were; each
\* history only ever grows at its end, the Agent history only in INIT, DEFEND
\* and the Agent's final-position step, the Anti-Agent history only in
\* CHALLENGE and the Anti-Agent's final-position step.
C18_ObserverStandaloneHistoriesOwned ==
  [][ LET step == StepMade(calls, calls') IN
      /\ IsPrefix(agent_history, agent_history')
      /\ IsPrefix(anti_history, anti_history')
      /\ agent_history' # agent_history => step \in AgentHistorySteps
      /\ anti_history' # anti_history => step \in AntiHistorySteps
      /\ step \in ObserverSteps =>
           /\ Len(Last(calls').messages) = 1
           /\ Last(calls').messages[1].role = "user"
           /\ agent_history' = agent_history
           /\ anti_history' = anti_history ]_vars

\* a returned run that made both kinds of Observer call and grew both
\* histories past their first exchange
C18_Witness ==
  /\ pc = "returned"
  /\ HasCall("OBSERVE")
  /\ HasCall("SYNTHESIZE")
  /\ Len(agent_history) > 2
  /\ Len(anti_history) > 2

(* ---- C19 -------------------------------------------------------------- *)
RECURSIVE ObserverTurns(_)
\* the observer turns of a transcript, as reports
ObserverTurns(t) ==
  IF t = <<>> THEN <<>>
  ELSE (IF Head(t).role = "observer"
          THEN << [round |-> Head(t).round, text |-> Head(t).text] >>
          ELSE <<>>) \o ObserverTurns(Tail(t))

\* the reports of reps and the observer turns of t are the same, in the same
\* order, with strictly increasing rounds, and each observer turn of t comes
\* after the anti_agent and the agent turn of its round
ReportsMatch(reps, t) ==
  /\ reps = ObserverTurns(t)
  /\ \A i, j \in 1..Len(reps) : i < j => reps[i].round < reps[j].round
  /\ \A i \in 1..Len(t) :
       t[i].role = "observer" =>
         /\ HasTurnBefore(t, i, t[i].round, "anti_agent")
         /\ HasTurnBefore(t, i, t[i].round, "agent")

\* C19: in every result with a transcript, observer_reports and the observer
\* turns of the transcript correspond one to one (same rounds, texts and
\* order), their rounds strictly increase, and a report of round r exists
\* only if the anti_agent and the agent turn of round r are in the transcript
\* before it.
C19_ReportsMatchObserverTurns ==
  /\ ReportsMatch(observer_reports, transcript)
  /\ (pc = "returned" /\ "transcript" \in DOMAIN result) =>
       ReportsMatch(result.observer_reports, result.transcript)

\* a result with a report for every round
C19_Witness ==
  /\ pc = "returned"
  /\ "transcript" \in DOMAIN result
  /\ Len(result.observer_reports) = Rounds
  /\ Rounds > 1

(* ---- C20 -------------------------------------------------------------- *)
\* how many of the run's calls so far are of the step
Count(step) == Len(CallsOf(calls, {step}))

InRun == pc \notin {"idle", "returned"}

\* the calls of a run: at most 1 + 3R + 3, one INIT, R of each round step,
\* one synthesis and one of each final position
CallBudget ==
  /\ Len(calls) <= 1 + 3 * rounds + 3
  /\ Count("INIT") <= 1
  /\ \A step \in {"CHALLENGE", "DEFEND", "OBSERVE"} : Count(step) <= rounds
  /\ \A step \in {"SYNTHESIZE", "AGENT_FINAL", "ANTI_FINAL"} : Count(step) <= 1

====
